---- MODULE Spec2Model ----
(***************************************************************************)
(* Criticality evaluation, candidate selection and variation walking of    *)
(* main.py, with the chess library, the analysis engine, the opening       *)
(* explorer and the SVG renderer as nondeterministic collaborators.        *)
(***************************************************************************)
EXTENDS Integers, Sequences, FiniteSets, TLC

\* ---------------------------------------------------------------- bounds
NMoves == 3
MateIn == 1
MaxThreshold == 2
MaxTop == 3
MaxLichess == 2
MaxLines == 2
MaxDepth == 2

\* ------------------------------------------------------ program constants
MateScore == 10000

\* ------------------------------------------------------------------ state
VARIABLES
  pc,               \* where the function under analysis is
  start_board,      \* the position the caller passed in
  board,            \* the chess.Board the function works on
  move,             \* the candidate move
  legal,            \* board.legal_moves of the position (evaluation)
  threshold,
  calls,            \* the engine's responses during the evaluation, in call order
  result,           \* what the evaluation returned
  top_moves_count,
  data,             \* the explorer's response
  infos,            \* the engine's multipv response
  candidate_moves,
  lichess_moves,    \* candidate_moves as the Lichess block left it
  engine_asked,     \* whether the multipv analysis was requested
  move_info_list,
  i,                \* the loop variable of the walk
  variation_depth,
  critical_count,
  stop              \* why the walk left its loop

\* ------------------------------------------------------------ chess.Board
WHITE == "white"
BLACK == "black"
Moves == 1..NMoves

Other(color) == IF color = WHITE THEN BLACK ELSE WHITE

\* board.push(move): the move goes on the move stack and the turn flips.
Push(b, m) == [turn |-> Other(b.turn), stack |-> Append(b.stack, m)]

\* board.pop(): the last move leaves the move stack and the turn flips back.
Pop(b) == [turn |-> Other(b.turn), stack |-> SubSeq(b.stack, 1, Len(b.stack) - 1)]

\* iteration order of board.legal_moves: a fixed order of the legal moves.
SeqOfSet(S) ==
  [j \in 1..Cardinality(S) |-> CHOOSE x \in S : Cardinality({y \in S : y < x}) = j - 1]

\* ----------------------------------------------------------- engine scores
Cp(n) == [kind |-> "cp", v |-> n]
Mate(n) == [kind |-> "mate", v |-> n]
\* the centipawn scores the engine answers with
CpValues == {-1, 0, 1}
RelScores == {Cp(n) : n \in CpValues} \cup {Mate(MateIn)}

\* What one engine.analyse call can do: return an info with a score relative
\* to the side to move, raise, or return an info that has no "score" entry.
Responses ==
  {[tag |-> "info", rel |-> s] : s \in RelScores}
    \cup {[tag |-> "error", rel |-> Cp(0)], [tag |-> "noscore", rel |-> Cp(0)]}

NegScore(s) == [kind |-> s.kind, v |-> 0 - s.v]

\* PovScore(rel, turn).white()
PovWhite(pov) == IF pov.turn = WHITE THEN pov.rel ELSE NegScore(pov.rel)

\* Score.score(mate_score=10000)
ScoreValue(s) ==
  IF s.kind = "cp" THEN s.v
  ELSE IF s.v > 0 THEN MateScore - s.v ELSE (0 - MateScore) - s.v

FallbackMated == [rel |-> Mate(0 - MateIn), turn |-> WHITE]

\* the info built by the except branch
FallbackPov == [rel |-> Cp(0), turn |-> WHITE]

\* info["score"] after the try/except around engine.analyse(board, ...)
InfoScore(resp, b) ==
  IF resp.tag = "error" THEN FallbackPov ELSE [rel |-> resp.rel, turn |-> b.turn]

\* info["score"].white().score(mate_score=10000)
WhiteScore(resp, b) == ScoreValue(PovWhite(InfoScore(resp, b)))

SeqMax(s) == CHOOSE v \in {s[k] : k \in 1..Len(s)} : \A k \in 1..Len(s) : v >= s[k]

\* max(s for m, s in alternative_scores)
BestAlternative(scores) == SeqMax(scores)

IsCriticalStrict(score_diff, th) == score_diff > th

\* is_critical = score_diff >= threshold
IsCritical(score_diff, th) == score_diff >= th

\* the filter m != move of the list comprehension
IsAlternative(alt, m) == alt # m

EvalResult(raised, crit, diff, b) ==
  [raised |-> raised, is_critical |-> crit, score_diff |-> diff, board |-> b]

\* evaluate_move_criticality(board, move, engine, threshold): resp[0] is the
\* engine's response for the candidate, resp[j] the one for the j-th legal
\* move.  The result carries the board as the call leaves it.
Evaluate(b, m, L, resp, th) ==
  LET b1 == Push(b, m)
      alts == SeqOfSet(L)
      bad == {j \in 1..Len(alts) : resp[j].tag = "noscore"}
  IN IF resp[0].tag = "noscore" THEN EvalResult(TRUE, FALSE, 0, b1)
     ELSE
       LET best_score == WhiteScore(resp[0], b1)
           b2 == Pop(b1)
       IN IF bad # {}
          THEN LET j == CHOOSE x \in bad : \A y \in bad : x <= y
               IN EvalResult(TRUE, FALSE, 0, Push(b2, alts[j]))
          ELSE
            LET alternative_scores ==
                  [j \in 1..Len(alts) |->
                     <<alts[j], WhiteScore(resp[j], Push(b2, alts[j]))>>]
                kept == SelectSeq(alternative_scores,
                                  LAMBDA p : IsAlternative(p[1], m))
                scores == [j \in 1..Len(kept) |-> kept[j][2]]
            IN IF kept = <<>> THEN EvalResult(FALSE, FALSE, 0, b2)
               ELSE LET score_diff == best_score - BestAlternative(scores)
                    IN EvalResult(FALSE, IsCritical(score_diff, th),
                                  score_diff, b2)

\* the number of engine.analyse calls the evaluation makes before it returns
\* or raises: one for the candidate, then one per legal move
CallsMade(L, resp) ==
  LET bad == {j \in 0..Cardinality(L) : resp[j].tag = "noscore"}
  IN IF bad = {} THEN Cardinality(L) + 1
     ELSE (CHOOSE x \in bad : \A y \in bad : x <= y) + 1

\* ------------------------------------------------- Lichess explorer data
\* SAN texts of a response: one per move, one that does not parse in the
\* position (IllegalSan), and the empty or missing text (NoSan).
NoSan == <<>>
IllegalSan == <<NMoves + 1>>
SanTexts == {<<k>> : k \in 1..(NMoves + 1)} \cup {NoSan}
Counts == {0, 1}

\* One element of data["moves"]: a record with its counts (a missing count
\* reads as 0), something that is no record, or a record with a count that
\* is no number.
MoveRecords ==
  [kind : {"record"}, san : SanTexts, white : Counts, draws : Counts, black : Counts]
MalformedRecords ==
  {[kind |-> k, san |-> NoSan, white |-> 0, draws |-> 0, black |-> 0] :
     k \in {"not_record", "bad_count"}}
MoveEntries == MoveRecords \cup MalformedRecords

\* the sort key x.get("white", 0) + x.get("draws", 0) + x.get("black", 0)
TotalGames(x) == x.white + x.draws + x.black

\* the key function raises on an element without .get or with a count that
\* does not add up
KeyRaises(x) == x.kind # "record"

InsertAscending(s, x) ==
  LET before == {k \in 1..Len(s) : TotalGames(s[k]) <= TotalGames(x)}
      n == Cardinality({k \in 1..Len(s) : \A j \in 1..k : j \in before})
  IN SubSeq(s, 1, n) \o <<x>> \o SubSeq(s, n + 1, Len(s))

\* one step of the stable descending sort: x goes behind every element whose
\* key is at least its own
InsertDescending(s, x) ==
  LET before == {k \in 1..Len(s) : TotalGames(s[k]) >= TotalGames(x)}
      n == Cardinality({k \in 1..Len(s) : \A j \in 1..k : j \in before})
  IN SubSeq(s, 1, n) \o <<x>> \o SubSeq(s, n + 1, Len(s))

RECURSIVE SortedMoves(_)
\* sorted(moves, key=..., reverse=True)
SortedMoves(moves) ==
  IF moves = <<>> THEN <<>>
  ELSE InsertDescending(SortedMoves(SubSeq(moves, 1, Len(moves) - 1)),
                        moves[Len(moves)])

\* seq[:n]
Prefix(seq, n) == SubSeq(seq, 1, IF n < Len(seq) THEN n ELSE Len(seq))

\* board.parse_san(san) succeeds on the SAN of a move of the position
SanParses(san) == san # NoSan /\ san[1] \in Moves

\* the Move that board.parse_san(san) returns
ParseSan(san) == san[1]

RECURSIVE ParsedMoves(_)
\* the loop over sorted_moves[:top_moves_count]: a record without SAN is
\* skipped, one whose SAN does not parse is dropped
ParsedMoves(records) ==
  IF records = <<>> THEN <<>>
  ELSE LET san == records[1].san
           rest == ParsedMoves(Tail(records))
       IN IF san # NoSan /\ SanParses(san) THEN <<ParseSan(san)>> \o rest ELSE rest

\* whether lines 170-184 raise on the response
LichessRaises(d) ==
  \/ d.tag = "malformed"
  \/ d.tag = "moves" /\ \E k \in 1..Len(d.moves) : KeyRaises(d.moves[k])

\* candidate_moves after the Lichess block
LichessCandidates(d, n) ==
  IF d.tag = "moves"
  THEN ParsedMoves(Prefix(SortedMoves(d.moves), n))
  ELSE <<>>

\* --------------------------------------------------------- multipv analysis
\* One info of engine.analyse(..., multipv=n): its pv cut to the first move
\* (empty when the pv is empty or missing), or something that is no info.
InfoLines ==
  {[info |-> TRUE, pv |-> <<>>], [info |-> FALSE, pv |-> <<>>]}
    \cup {[info |-> TRUE, pv |-> <<m>>] : m \in Moves}

Contains(seq, m) == \E k \in 1..Len(seq) : seq[k] = m

\* if pv and pv[0] not in candidate_moves: candidate_moves.append(pv[0])
AppendIfNew(cands, pv) ==
  IF pv # <<>> /\ ~Contains(cands, pv[1]) THEN Append(cands, pv[1]) ELSE cands

RECURSIVE EngineCandidates(_, _)
\* the loop over infos inside the try: a line that is no info raises, the
\* except ends the loop and keeps what was appended
EngineCandidates(cands, lines) ==
  IF lines = <<>> \/ ~lines[1].info THEN cands
  ELSE EngineCandidates(AppendIfNew(cands, lines[1].pv), Tail(lines))

RECURSIVE SeqsUpTo(_, _)
\* the sequences over S of length at most n
SeqsUpTo(S, n) ==
  IF n = 0 THEN {<<>>}
  ELSE LET shorter == SeqsUpTo(S, n - 1)
       IN shorter \cup {Append(s, x) : s \in shorter, x \in S}

\* what query_lichess_openings returns: None (request or decoding failed), a
\* JSON object without "moves", a JSON value on which the "moves" test or its
\* sorting raises, or an object with a list of moves
LichessData ==
  {[tag |-> t, moves |-> <<>>] : t \in {"none", "no_moves", "malformed"}}
    \cup {[tag |-> "moves", moves |-> ms] : ms \in SeqsUpTo(MoveEntries, MaxLichess)}

\* engine.analyse(board, ..., multipv=n) raises or returns a list of infos
MultipvAnswers ==
  {[tag |-> "error", infos |-> <<>>]}
    \cup {[tag |-> "infos", infos |-> ls] : ls \in SeqsUpTo(InfoLines, MaxLines)}

\* ------------------------------------------------------- variation walk
\* The engine of the walk answers with a centipawn score, an error or an info
\* without score.
WalkResponses == {r \in Responses : r.rel.kind = "cp"}

EmptyBoard(t) == [turn |-> t, stack |-> <<>>]

\* Every way evaluate_move_criticality can end for a candidate m that is legal
\* in a position with side t to move and threshold th, over the legal moves
\* of the position and the engine's responses, as <<t, m, th, result>>; the
\* boards are relative to the position.
EvalTable ==
  {x : x \in
     UNION {UNION {{<<t, m, th, Evaluate(EmptyBoard(t), m, L, resp, th)>> :
                      resp \in [0..Cardinality(L) -> WalkResponses]} :
                   L \in {S \in SUBSET Moves : m \in S}} :
            t \in {WHITE, BLACK}, m \in Moves, th \in 1..MaxThreshold}}

\* the outcomes of evaluate_move_criticality(board, m, engine, th) on board b
EvalOutcomes(b, m, th) ==
  {[x[4] EXCEPT !.board = [turn |-> x[4].board.turn,
                           stack |-> b.stack \o x[4].board.stack]] :
     x \in {y \in EvalTable : y[1] = b.turn /\ y[2] = m /\ y[3] = th}}

\* engine.analyse(board, ...) of the loop: it raises, or info.get("pv") is
\* empty or missing, or the pv starts with a move
PvAnswers ==
  {[tag |-> "error", pv |-> <<>>], [tag |-> "info", pv |-> <<>>]}
    \cup {[tag |-> "info", pv |-> <<m>>] : m \in Moves}

\* generate_position_svg: chess.svg.board raises, or open/write raises inside
\* the try and is printed, or the file is saved
RenderOutcomes == {"saved", "save_failed", "svg_raised"}

RenderRaises(render) == render = "svg_raised"

\* board.san(move) on the position the move belongs to; str(move) after it
\* raised. On a board that is no longer that position the SAN may raise.
MoveNames(b_before, b_now, m) ==
  IF b_now = b_before THEN {<<"san", m>>} ELSE {<<"san", m>>, <<"uci", m>>}

CountAll(list) == Len(list)

\* sum(1 for _, is_crit, _ in move_info_list if is_crit)
CriticalCount(list) == Cardinality({k \in 1..Len(list) : list[k].is_crit})

MoveInfo(name, crit, diff) == [name |-> name, is_crit |-> crit, score_diff |-> diff]

\* ------------------------------------------------------------ state tuples
vars == <<pc, start_board, board, move, legal, threshold, calls, result, top_moves_count, data,
          infos, candidate_moves, lichess_moves, engine_asked, move_info_list, i,
          variation_depth, critical_count, stop>>

evalVars == <<move, legal, threshold, calls, result>>
selectVars == <<top_moves_count, data, infos, candidate_moves, lichess_moves, engine_asked>>
walkVars == <<move_info_list, i, variation_depth, critical_count, stop>>

NoResult == EvalResult(FALSE, FALSE, 0, EmptyBoard(WHITE))
NoData == [tag |-> "unset", moves |-> <<>>]
NoInfos == [tag |-> "unset", infos |-> <<>>]

IdleEval ==
  /\ legal = {}
  /\ calls = <<>>
  /\ result = NoResult

IdleSelect ==
  /\ top_moves_count = 0
  /\ data = NoData
  /\ infos = NoInfos
  /\ candidate_moves = <<>>
  /\ lichess_moves = <<>>
  /\ engine_asked = FALSE

IdleWalk ==
  /\ move_info_list = <<>>
  /\ i = 0
  /\ variation_depth = 0
  /\ critical_count = 0
  /\ stop = "none"

\* ------------------------------------------- evaluate_move_criticality
InitEval ==
  /\ pc = "eval"
  /\ \E t \in {WHITE, BLACK} : start_board = EmptyBoard(t)
  /\ board = start_board
  /\ legal \in SUBSET Moves
  /\ move \in legal
  /\ threshold \in 1..MaxThreshold
  /\ calls = <<>>
  /\ result = NoResult
  /\ IdleSelect
  /\ IdleWalk

EvaluateMoveCriticality ==
  /\ pc = "eval"
  /\ \E resp \in [0..Cardinality(legal) -> Responses] :
       LET r == Evaluate(board, move, legal, resp, threshold)
       IN /\ result' = r
          /\ board' = r.board
          /\ calls' = [j \in 0..(CallsMade(legal, resp) - 1) |-> resp[j]]
          /\ pc' = IF r.raised THEN "eval_raised" ELSE "eval_returned"
  /\ UNCHANGED <<start_board, move, legal, threshold, selectVars, walkVars>>

NextEval == EvaluateMoveCriticality

SpecEval == InitEval /\ [][NextEval]_vars

\* -------------------------------------------- get_variation_candidates
InitSelect ==
  /\ pc = "select"
  /\ start_board = EmptyBoard(WHITE)
  /\ board = start_board
  /\ move = 1
  /\ threshold = 1
  /\ IdleEval
  /\ top_moves_count \in 0..MaxTop
  /\ data = NoData
  /\ infos = NoInfos
  /\ candidate_moves = <<>>
  /\ lichess_moves = <<>>
  /\ engine_asked = FALSE
  /\ IdleWalk

\* lines 168-169: the explorer is queried
QueryLichessOpenings ==
  /\ pc = "select"
  /\ \E d \in LichessData : data' = d
  /\ pc' = "select_lichess"
  /\ UNCHANGED <<start_board, board, evalVars, top_moves_count, infos, candidate_moves, lichess_moves,
                 engine_asked, walkVars>>

\* lines 170-184: the most played moves become candidates. data is not read
\* after line 184 and leaves the state here.
LichessBlock ==
  /\ pc = "select_lichess"
  /\ IF LichessRaises(data)
     THEN /\ pc' = "select_raised"
          /\ candidate_moves' = <<>>
     ELSE /\ pc' = "select_engine"
          /\ candidate_moves' = LichessCandidates(data, top_moves_count)
  /\ data' = NoData
  /\ UNCHANGED <<start_board, board, evalVars, top_moves_count, infos, lichess_moves, engine_asked,
                 walkVars>>

\* lines 186-195: the engine's lines when candidates are missing, and the return
EngineBlock ==
  /\ pc = "select_engine"
  /\ lichess_moves' = candidate_moves
  /\ IF Len(candidate_moves) < top_moves_count
     THEN /\ engine_asked' = TRUE
          /\ \E e \in MultipvAnswers :
               /\ infos' = e
               /\ candidate_moves' =
                    Prefix(EngineCandidates(candidate_moves, e.infos), top_moves_count)
     ELSE /\ engine_asked' = FALSE
          /\ infos' = infos
          /\ candidate_moves' = Prefix(candidate_moves, top_moves_count)
  /\ pc' = "select_returned"
  /\ UNCHANGED <<start_board, board, evalVars, top_moves_count, data, walkVars>>

NextSelect == QueryLichessOpenings \/ LichessBlock \/ EngineBlock

SpecSelect == InitSelect /\ [][NextSelect]_vars

\* ---------------------------------------------------- analyze_variation
InitWalk ==
  /\ pc = "walk"
  /\ \E t \in {WHITE, BLACK} : start_board = EmptyBoard(t)
  /\ board = start_board
  /\ move \in Moves
  /\ threshold \in 1..MaxThreshold
  /\ IdleEval
  /\ IdleSelect
  /\ move_info_list = <<>>
  /\ i = 0
  /\ variation_depth \in 0..MaxDepth
  /\ critical_count = 0
  /\ stop = "none"

\* lines 260-278: the candidate move is evaluated, recorded, played, rendered
WalkFirstMove ==
  /\ pc = "walk"
  /\ \E r \in EvalOutcomes(board, move, threshold), render \in RenderOutcomes :
       \E name \in MoveNames(board, r.board, move) :
         /\ move_info_list' =
              <<IF r.raised THEN MoveInfo(name, FALSE, 0)
                ELSE MoveInfo(name, r.is_critical, r.score_diff)>>
         /\ board' = Push(r.board, move)
         /\ IF RenderRaises(render)
            THEN pc' = "walk_raised" /\ stop' = "svg_raised"
            ELSE pc' = "walk_loop" /\ stop' = stop
  /\ i' = 1
  /\ UNCHANGED <<start_board, evalVars, selectVars, variation_depth, critical_count>>

\* lines 281-299: one iteration of the loop over range(1, variation_depth)
WalkNextMove ==
  /\ pc = "walk_loop"
  /\ i < variation_depth
  /\ \E a \in PvAnswers :
       IF a.tag = "error"
       THEN /\ stop' = "engine_error"
            /\ pc' = "walk_finish"
            /\ UNCHANGED <<board, move_info_list, i>>
       ELSE IF a.pv = <<>>
       THEN /\ stop' = "no_pv"
            /\ pc' = "walk_finish"
            /\ UNCHANGED <<board, move_info_list, i>>
       ELSE
         \E r \in EvalOutcomes(board, a.pv[1], threshold), render \in RenderOutcomes :
           IF r.raised
           THEN /\ stop' = "evaluate_raised"
                /\ pc' = "walk_finish"
                /\ board' = r.board
                /\ UNCHANGED <<move_info_list, i>>
           ELSE /\ move_info_list' =
                     Append(move_info_list,
                            MoveInfo(<<"san", a.pv[1]>>, r.is_critical, r.score_diff))
                /\ board' = Push(r.board, a.pv[1])
                /\ IF RenderRaises(render)
                   THEN stop' = "svg_raised" /\ pc' = "walk_finish" /\ i' = i
                   ELSE stop' = stop /\ pc' = pc /\ i' = i + 1
  /\ UNCHANGED <<start_board, evalVars, selectVars, variation_depth, critical_count>>

\* the range of the loop is exhausted
WalkLoopEnd ==
  /\ pc = "walk_loop"
  /\ i >= variation_depth
  /\ stop' = "depth"
  /\ pc' = "walk_finish"
  /\ UNCHANGED <<start_board, board, evalVars, selectVars, move_info_list, i, variation_depth,
                 critical_count>>

\* lines 301-312: the count and the returned dictionary
WalkReturn ==
  /\ pc = "walk_finish"
  /\ critical_count' = CriticalCount(move_info_list)
  /\ pc' = "walk_returned"
  /\ UNCHANGED <<start_board, board, evalVars, selectVars, move_info_list, i, variation_depth, stop>>

NextWalk == WalkFirstMove \/ WalkNextMove \/ WalkLoopEnd \/ WalkReturn

SpecWalk == InitWalk /\ [][NextWalk]_vars

\* ============================================================== properties
\* The statements are written from the engine's responses as logged in calls,
\* not from the operators that model the code.

\* the score of a response as the specification reads it: the centipawn
\* value, a mate as the capped sentinel, seen from White, 0 for a failed call
SpecScore(resp, side_to_move) ==
  IF resp.tag = "error" THEN 0
  ELSE LET v == IF resp.rel.kind = "cp" THEN resp.rel.v
                ELSE IF resp.rel.v > 0 THEN MateScore - resp.rel.v
                     ELSE 0 - (MateScore + resp.rel.v)
       IN IF side_to_move = WHITE THEN v ELSE 0 - v

\* the call made for legal move m: calls are the candidate, then the legal
\* moves in order
CallOf(m) == 1 + Cardinality({y \in legal : y < m})

AfterMove == Other(start_board.turn)
ChosenScore == SpecScore(calls[0], AfterMove)
AltScore(m) == SpecScore(calls[CallOf(m)], AfterMove)
Alternatives == legal \ {move}
EvalDone == pc \in {"eval_returned", "eval_raised"}
AllCallsMade == DOMAIN calls = 0..Cardinality(legal)
NoCallFailed == \A j \in DOMAIN calls : calls[j].tag = "info"
SomeCallFailed == \E j \in DOMAIN calls : calls[j].tag = "error"
EveryCallUsable == \A j \in DOMAIN calls : calls[j].tag # "noscore"

\* the verdict of the specification on the logged scores
SpecVerdict ==
  IF Alternatives = {} THEN result.is_critical = FALSE /\ result.score_diff = 0
  ELSE \E best \in Alternatives :
         /\ \A o \in Alternatives : AltScore(best) >= AltScore(o)
         /\ result.score_diff = ChosenScore - AltScore(best)
         /\ result.is_critical = (ChosenScore - AltScore(best) >= threshold)

\* C1: when every engine call returns a score, evaluate returns the margin
\* between the candidate's score and the best score of the other legal moves,
\* critical exactly when the margin reaches the threshold, and (false, 0) when
\* the candidate is the only legal move.
C1_MarginAndVerdict ==
  (EvalDone /\ NoCallFailed) => (pc = "eval_returned" /\ AllCallsMade /\ SpecVerdict)

\* C1 witness: three legal moves, a margin equal to the threshold, critical
C1_Witness ==
  /\ pc = "eval_returned"
  /\ NoCallFailed
  /\ Cardinality(legal) = NMoves
  /\ result.score_diff = threshold
  /\ result.is_critical
  /\ \E o \in Alternatives : AltScore(o) # ChosenScore - threshold

\* the score of a position for the side that made the move into it
MoverScore(white_score) ==
  IF start_board.turn = WHITE THEN white_score ELSE 0 - white_score

\* C4: whichever side is to move, a move is critical exactly when every legal
\* alternative is worse for the side that moved by at least the threshold.
C4_CriticalForTheMover ==
  (pc = "eval_returned" /\ NoCallFailed /\ Alternatives # {}) =>
    (result.is_critical <=>
       \A o \in Alternatives :
         MoverScore(ChosenScore) - MoverScore(AltScore(o)) >= threshold)

\* C5: an engine call that errors counts as score 0 for that call only: the
\* evaluation makes all its calls, returns, and its verdict is the one on the
\* logged scores with 0 for each failed call.
C5_FailedCallIsNeutral ==
  (EvalDone /\ SomeCallFailed /\ EveryCallUsable) =>
    (pc = "eval_returned" /\ AllCallsMade /\ SpecVerdict)

\* C5 witness: an alternative's call fails, the other alternative scores
\* below 0, and the candidate is critical against the neutral 0
C5_Witness ==
  /\ pc = "eval_returned"
  /\ calls[0].tag = "info"
  /\ Cardinality(legal) = NMoves
  /\ \E o \in Alternatives : calls[CallOf(o)].tag = "error"
  /\ \E o \in Alternatives : calls[CallOf(o)].tag = "info" /\ AltScore(o) < 0
  /\ result.score_diff = ChosenScore
  /\ result.score_diff = threshold
  /\ result.is_critical

\* C9: on every way out of evaluate the board is the position passed in.
C9_BoardRestored == EvalDone => board = start_board

\* ---- get_variation_candidates
NoDuplicates(seq) == \A j, k \in 1..Len(seq) : j # k => seq[j] # seq[k]

\* C2: the returned candidates are at most top_moves_count and no move occurs
\* twice.
C2_UniqueAndBounded ==
  pc = "select_returned" =>
    (Len(candidate_moves) <= top_moves_count /\ NoDuplicates(candidate_moves))

\* C6: get_variation_candidates never fails, whatever the explorer and the
\* engine answer.
C6_NeverFails == pc # "select_raised"

SpecTotal(x) == x.white + x.draws + x.black

\* cands are moves of the explorer's records, most played first: each comes
\* from a record of its own, a record with more games comes earlier, records
\* with equally many games keep the explorer's order
InPopularityOrder(d, cands) ==
  IF d.tag # "moves" THEN cands = <<>>
  ELSE \E f \in [1..Len(cands) -> 1..Len(d.moves)] :
         /\ \A j \in 1..Len(cands) : d.moves[f[j]].san = <<cands[j]>>
         /\ \A j, k \in 1..Len(cands) :
              j < k =>
                \/ SpecTotal(d.moves[f[j]]) > SpecTotal(d.moves[f[k]])
                \/ SpecTotal(d.moves[f[j]]) = SpecTotal(d.moves[f[k]]) /\ f[j] < f[k]

\* rest are first moves of the engine's lines, in the engine's order
InEngineOrder(lines, rest) ==
  \E g \in [1..Len(rest) -> 1..Len(lines)] :
    /\ \A j \in 1..Len(rest) : lines[g[j]].pv = <<rest[j]>>
    /\ \A j, k \in 1..Len(rest) : j < k => g[j] < g[k]

FromEngine ==
  SubSeq(candidate_moves, Len(lichess_moves) + 1, Len(candidate_moves))

SelectReturned ==
  pc = "select_returned" =>
    /\ engine_asked => Len(lichess_moves) < top_moves_count
    /\ Len(candidate_moves) >= Len(lichess_moves)
    /\ SubSeq(candidate_moves, 1, Len(lichess_moves)) = lichess_moves
    /\ InEngineOrder(infos.infos, FromEngine)
    /\ ~engine_asked => FromEngine = <<>>

LichessStep ==
  (pc = "select_lichess" /\ pc' = "select_engine") =>
    InPopularityOrder(data, candidate_moves')

EngineStep ==
  (pc = "select_engine" /\ pc' = "select_returned") => lichess_moves' = candidate_moves

\* C10: the result lists the explorer's moves first, most played first, then
\* first moves of the engine's lines in the engine's order; the engine is
\* asked only when the explorer gave fewer than top_moves_count moves, and
\* no explorer move is cut off for an engine move.
C10_PopularityThenEngine ==
  [][LichessStep /\ EngineStep]_vars /\ []SelectReturned

\* C10 witness: two explorer moves, then a third candidate from the engine's
\* second line
C10_Witness ==
  /\ pc = "select_returned"
  /\ Len(lichess_moves) = 2
  /\ engine_asked
  /\ Len(infos.infos) = 2
  /\ infos.infos[1].pv = <<lichess_moves[2]>>
  /\ Len(candidate_moves) = 3
  /\ infos.infos[2].pv = <<candidate_moves[3]>>

\* ---- analyze_variation
RECURSIVE SpecCriticalCount(_)
SpecCriticalCount(list) ==
  IF list = <<>> THEN 0
  ELSE (IF list[1].is_crit THEN 1 ELSE 0) + SpecCriticalCount(Tail(list))

\* C3: the returned record has at most variation_depth entries.
C3_AtMostDepthEntries ==
  pc = "walk_returned" => Len(move_info_list) <= variation_depth

NextMoveMissing == stop \in {"no_pv", "engine_error"}

\* a request for the next move that finds no pv or raises leaves the loop
\* with the record untouched
NextMoveRequest ==
  (pc = "walk_loop" /\ stop' \in {"no_pv", "engine_error"}) =>
    /\ Len(move_info_list) >= 1
    /\ Len(move_info_list) < variation_depth
    /\ move_info_list' = move_info_list
    /\ pc' = "walk_finish"

\* the walk returns what it had recorded when it left the loop
ReturnStep == pc = "walk_finish" => (pc' = "walk_returned" /\ move_info_list' = move_info_list)

ReturnedCount ==
  (pc = "walk_returned" /\ NextMoveMissing) =>
    critical_count = SpecCriticalCount(move_info_list)

\* C7: when the request for the next move finds an empty pv or raises after
\* k plies, the walk returns normally with those k entries and the count of
\* the critical ones.
C7_StopsWithRecordedPlies ==
  [][NextMoveRequest /\ ReturnStep]_vars
    /\ [](NextMoveMissing => pc \in {"walk_finish", "walk_returned"})
    /\ []ReturnedCount

\* C7 witness: the walk returned one recorded ply, which is critical, after
\* the engine had no pv for the second
C7_Witness ==
  /\ pc = "walk_returned"
  /\ stop = "no_pv"
  /\ Len(move_info_list) = 1
  /\ variation_depth > 1
  /\ move_info_list[1].is_crit
  /\ critical_count = 1

\* C8: a rendering failure neither raises out of the walk nor ends its loop.
C8_RenderingNeverMatters == pc # "walk_raised" /\ stop # "svg_raised"
====
